---- MODULE Spec2Model ----
(***************************************************************************)
(* Model of gocodegen's extraction pipeline (parser/parser.go) and of its  *)
(* entry point (cmd/gen.go): the declaration walker, the entity registry,  *)
(* the type mapper, the tag extractor and the description enhancer.        *)
(*                                                                         *)
(* Go strings are TLA+ strings, taken apart with Len and SubSeq.  A Go     *)
(* call that may panic yields a record [panic, val]: panic is "" when the  *)
(* call returned val, and the runtime's message otherwise.                 *)
(***************************************************************************)
EXTENDS Integers, Sequences, FiniteSets, TLC

VARIABLES
    source,          \* the declarations of the file named by GOFILE, as written
    file,            \* p.file: the ast nodes ast.Inspect hands to the callback, in order
    pos,             \* how many of them the callback has been called on
    pc,              \* "walking" | "returned" | "panicked"
    ret,             \* what Parse returned: "none" | "nil" | "error"
    output,          \* logging-service.go: "untouched" | "written" | "writeFailed"
    panicMsg,        \* the runtime error that ended the process, "" if none
    heap,            \* the Entity objects allocated, by address (1..Len(heap))
    Entities,        \* p.Entities: a sequence of addresses
    EntitiesByName,  \* p.EntitiesByName: [nil, m], m a function from names to addresses
    call,            \* the pure function applied, with its arguments
    result           \* and what it returned

walker == <<source, file, pos, pc, ret, output, panicMsg, heap, Entities, EntitiesByName>>
vars == <<source, file, pos, pc, ret, output, panicMsg, heap, Entities, EntitiesByName, call, result>>

(***************************************************************************)
(* Bounds of the model.                                                    *)
(***************************************************************************)
MaxDecls == 3
MaxDepth == 2

(***************************************************************************)
(* package strings                                                         *)
(***************************************************************************)
Char(s, i) == SubSeq(s, i, i)

HasPrefixAt(s, i, p) == i + Len(p) - 1 <= Len(s) /\ SubSeq(s, i, i + Len(p) - 1) = p

HasSuffix(s, suffix) ==
    Len(s) >= Len(suffix) /\ SubSeq(s, Len(s) - Len(suffix) + 1, Len(s)) = suffix

\* the least member of a set of positions, 0 for the empty set
First(at) == IF at = {} THEN 0 ELSE CHOOSE i \in at : \A j \in at : i <= j

\* strings.Index, 1-based; 0 when substr does not occur in s
Index(s, substr) == First({i \in 1..Len(s) : HasPrefixAt(s, i, substr)})

\* strings.Replace(s, old, new, n) for a non-empty old: the first n
\* non-overlapping occurrences, all of them when n < 0; i is where old
\* first occurs in s
RECURSIVE replaceFrom(_, _, _, _, _)
replaceFrom(s, old, new, n, i) ==
    IF n = 0 \/ i = 0 THEN s
    ELSE SubSeq(s, 1, i - 1) \o new
         \o replaceFrom(SubSeq(s, i + Len(old), Len(s)), old, new,
                        IF n < 0 THEN n ELSE n - 1,
                        Index(SubSeq(s, i + Len(old), Len(s)), old))

Replace(s, old, new, n) == replaceFrom(s, old, new, n, Index(s, old))

LowerLetters == "abcdefghijklmnopqrstuvwxyz"
UpperLetters == "ABCDEFGHIJKLMNOPQRSTUVWXYZ"
Digits == "0123456789"

IsIn(c, alphabet) == \E i \in 1..Len(alphabet) : Char(alphabet, i) = c

upperOf(c) ==
    IF IsIn(c, LowerLetters) THEN Char(UpperLetters, Index(LowerLetters, c)) ELSE c

RECURSIVE ToUpper(_)
ToUpper(s) ==
    IF s = "" THEN "" ELSE upperOf(Char(s, 1)) \o ToUpper(SubSeq(s, 2, Len(s)))

(***************************************************************************)
(* The results of calls that may panic.                                    *)
(***************************************************************************)
Return(v) == [panic |-> "", val |-> v]
Panic(msg) == [panic |-> msg, val |-> ""]

NilMapWrite == "assignment to entry in nil map"
NilDeref == "invalid memory address or nil pointer dereference"
IndexRange0 == "index out of range [0] with length 0"
IndexRange1 == "index out of range [1] with length 0"
BadAssertion == "interface conversion: ast.Expr is not *ast.StructType"
UnmappedType == "Unmapped type"

(***************************************************************************)
(* var re = regexp.MustCompile(`json:"(\d|\w+)(,omitempty)?"`)             *)
(* A tag is the text between the back quotes of the tag literal: the       *)
(* pattern holds no back quote, so the two that enclose Tag.Value take no  *)
(* part in a match.                                                        *)
(***************************************************************************)
IsDigit(c) == IsIn(c, Digits)
IsWord(c) == IsIn(c, Digits) \/ IsIn(c, LowerLetters) \/ IsIn(c, UpperLetters) \/ c = "_"

\* (,omitempty)?" at k: the position after the match, 0 when there is none
reTail(s, k) ==
    IF HasPrefixAt(s, k, ",omitempty\"") THEN k + 11
    ELSE IF HasPrefixAt(s, k, "\"") THEN k + 1
    ELSE 0

\* the length of the run of \w characters of s that starts at j
RECURSIVE wordRun(_, _)
wordRun(s, j) == IF j <= Len(s) /\ IsWord(Char(s, j)) THEN 1 + wordRun(s, j + 1) ELSE 0

\* the greatest member of a set of lengths, 0 for the empty set
Longest(fits) == IF fits = {} THEN 0 ELSE CHOOSE x \in fits : \A y \in fits : y <= x

\* the length group 1 takes at j, where the run of \w characters is w
\* long: \d is tried before \w+, and \w+ from its longest down; 0: no match
reGroup1(s, j, w) ==
    IF w >= 1 /\ IsDigit(Char(s, j)) /\ reTail(s, j + 1) # 0 THEN 1
    ELSE Longest({l \in 1..w : reTail(s, j + l) # 0})

\* <<whole match, group 1, group 2>> for a match from i that ends before e
reSubmatch(s, i, j, l, e) ==
    << SubSeq(s, i, e - 1),
       SubSeq(s, j, j + l - 1),
       IF e = j + l + 1 THEN "" ELSE ",omitempty" >>

reGroups(s, i, j, l) == IF l = 0 THEN <<>> ELSE reSubmatch(s, i, j, l, reTail(s, j + l))

\* the match that starts at i, or <<>>
reMatchAt(s, i) ==
    IF ~HasPrefixAt(s, i, "json:\"") THEN <<>>
    ELSE reGroups(s, i, i + 6, reGroup1(s, i + 6, wordRun(s, i + 6)))

reLeftmost(s, i) == IF i = 0 THEN <<>> ELSE reMatchAt(s, i)

\* re.FindStringSubmatch: the leftmost match, nil (<<>>) when there is none
FindStringSubmatch(s) ==
    reLeftmost(s, First({i \in 1..Len(s) : reMatchAt(s, i) # <<>>}))

\* match[1]
submatch1(match) == IF Len(match) < 2 THEN Panic(IndexRange1) ELSE Return(match[2])

parseTag(tag) == submatch1(FindStringSubmatch(tag))

(***************************************************************************)
(* go/ast: the expressions and declarations the walker looks at.  An       *)
(* optional pointer (Field.Tag, FuncDecl.Recv) is a sequence of length 0   *)
(* (nil) or 1.                                                             *)
(***************************************************************************)
Ident(name) == [k |-> "Ident", Name |-> name]
StarExpr(x) == [k |-> "StarExpr", X |-> x]
SelectorExpr(x, sel) == [k |-> "SelectorExpr", X |-> Ident(x), Sel |-> sel]
ArrayType(elt) == [k |-> "ArrayType", Elt |-> elt]
StructType(fields) == [k |-> "StructType", Fields |-> fields]
MapType == [k |-> "MapType"]
FuncType == [k |-> "FuncType"]
InterfaceType == [k |-> "InterfaceType"]
ChanType == [k |-> "ChanType"]

\* a field with its doc comment text, names, type and tag literal
Field(doc, names, type, tag) == [Doc |-> doc, Names |-> names, Type |-> type, Tag |-> tag]

(***************************************************************************)
(* mapFieldType                                                            *)
(***************************************************************************)
\* the switch on fmt.Sprintf("%v.%s", x.X, x.Sel.Name)
mapSelector(name) ==
    IF name = "globalid.ID" THEN Return("UUID")
    ELSE IF name = "model.ReactionType" THEN Return("string")
    ELSE IF name \in {"model.CardsResponse", "model.CardResponse", "model.Draft"}
         THEN Return("Object")
    ELSE Return(name)

\* a mapper that looks through a pointer to a qualified name
mapFieldType_pointee(expr) ==
    IF expr.k = "Ident" THEN Return(expr.Name)
    ELSE IF expr.k = "StarExpr" THEN
        IF expr.X.k = "Ident" THEN Return(expr.X.Name)
        ELSE IF expr.X.k = "SelectorExpr"
             THEN mapSelector(expr.X.X.Name \o "." \o expr.X.Sel)
             ELSE Return("Object")
    ELSE IF expr.k = "SelectorExpr" THEN mapSelector(expr.X.Name \o "." \o expr.Sel)
    ELSE IF expr.k = "ArrayType" THEN Return("Array")
    ELSE Panic(UnmappedType)

mapFieldType(expr) ==
    IF expr.k = "Ident" THEN Return(expr.Name)
    ELSE IF expr.k = "StarExpr" THEN
        IF expr.X.k = "Ident" THEN Return(expr.X.Name) ELSE Return("Object")
    ELSE IF expr.k = "SelectorExpr" THEN mapSelector(expr.X.Name \o "." \o expr.Sel)
    ELSE IF expr.k = "ArrayType" THEN Return("Array")
    ELSE Panic(UnmappedType)

(***************************************************************************)
(* enhanceDescription, toUpper                                             *)
(***************************************************************************)
toUpper(s) ==
    IF s = "" THEN "" ELSE ToUpper(Char(s, 1)) \o SubSeq(s, 2, Len(s))

enhanceDescription(description, rpc) ==
    toUpper(Replace(description, rpc \o " ", "", -1))

(***************************************************************************)
(* Entity, Parameter, ResponseField, Response, NewEntity.  A Go map is     *)
(* [nil, m]: a nil map reads as empty and panics when written.  A pointer  *)
(* to an Entity is its address in heap, 0 for nil; a *Response is a        *)
(* sequence of length 0 (nil) or 1.                                        *)
(***************************************************************************)
NilMap == [nil |-> TRUE, m |-> <<>>]
MapGet(map, key) == IF key \in DOMAIN map.m THEN map.m[key] ELSE 0
MapSet(map, key, v) == [nil |-> FALSE, m |-> (key :> v) @@ map.m]

Parameter(field, type, description, tag) ==
    [Field |-> field, Type |-> type, Description |-> description, Tag |-> tag]

ResponseField(field, type, description) ==
    [Field |-> field, Type |-> type, Description |-> description, Tag |-> ""]

NewEntity(name) ==
    [Name |-> name, Description |-> "", Response |-> <<>>,
     Parameters |-> <<>>, ParameterByName |-> NilMap]

(***************************************************************************)
(* The Parser's registry as a value st = [heap, Entities, EntitiesByName]. *)
(* A method yields [panic, st]: st is the registry when it returned or     *)
(* panicked.                                                               *)
(***************************************************************************)
Done(st) == [panic |-> "", st |-> st]
Abort(msg, st) == [panic |-> msg, st |-> st]

\* p.EntitiesByName[entity] = NewEntity(entity)
register(st, entity) ==
    IF st.EntitiesByName.nil THEN Abort(NilMapWrite, st)
    ELSE Done([st EXCEPT !.heap = Append(st.heap, NewEntity(entity)),
                         !.EntitiesByName = MapSet(st.EntitiesByName, entity,
                                                   Len(st.heap) + 1)])

\* if p.EntitiesByName[entity] == nil { p.EntitiesByName[entity] = NewEntity(entity) }
ensure(st, entity) ==
    IF MapGet(st.EntitiesByName, entity) = 0 THEN register(st, entity) ELSE Done(st)

(***************************************************************************)
(* Parser.addParameter.  Within one field the panics are taken in the      *)
(* order the composite literal is written.                                 *)
(***************************************************************************)
\* the Parameter literal, given what parseTag and mapFieldType did
buildParameter(field, tag, type) ==
    IF tag.panic # "" THEN Panic(tag.panic)
    ELSE IF type.panic # "" THEN Panic(type.panic)
    ELSE Return(Parameter(field.Names[1], type.val, field.Doc, tag.val))

newParameter(field) ==
    IF field.Names = <<>> THEN Panic(IndexRange0)
    ELSE IF field.Tag = <<>> THEN Panic(NilDeref)
    ELSE buildParameter(field, parseTag(field.Tag[1]), mapFieldType(field.Type))

\* the append to Parameters, then the write to ParameterByName, of the entity at a
storeParameter(st, a, params) ==
    IF st.heap[a].ParameterByName.nil
    THEN Abort(NilMapWrite, [st EXCEPT !.heap[a].Parameters = Append(@, params)])
    ELSE Done([st EXCEPT !.heap[a].Parameters = Append(@, params),
                         !.heap[a].ParameterByName = MapSet(@, params.Field, params)])

addParams(r, entity, params) ==
    IF r.panic # "" THEN r
    ELSE storeParameter(r.st, MapGet(r.st.EntitiesByName, entity), params)

\* one turn of the loop, params being the outcome of the Parameter literal
addField(st, entity, params) ==
    IF params.panic # "" THEN Abort(params.panic, st)
    ELSE addParams(ensure(st, entity), entity, params.val)

RECURSIVE addParameterFrom(_, _, _)
addRest(r, entity, fields) ==
    IF r.panic # "" THEN r ELSE addParameterFrom(r.st, entity, fields)

addParameterFrom(st, entity, fields) ==
    IF fields = <<>> THEN Done(st)
    ELSE addRest(addField(st, entity, newParameter(Head(fields))), entity, Tail(fields))

\* a loop that starts at the second field
addParameter_skipFirst(st, entity, structType) ==
    addParameterFrom(st, entity, SubSeq(structType.Fields, 2, Len(structType.Fields)))

addParameter(st, entity, structType) ==
    addParameterFrom(st, entity, structType.Fields)

(***************************************************************************)
(* Parser.addResponseField                                                 *)
(***************************************************************************)
buildResponseField(field, tag, type) ==
    IF tag.panic # "" THEN Panic(tag.panic)
    ELSE IF type.panic # "" THEN Panic(type.panic)
    ELSE Return(ResponseField(tag.val, type.val, field.Doc))

newResponseField(field) ==
    IF field.Tag = <<>> THEN Panic(NilDeref)
    ELSE buildResponseField(field, parseTag(field.Tag[1]), mapFieldType(field.Type))

\* the loop over x.Fields.List: [panic, val], val being response.Fields
RECURSIVE responseFields(_, _)
appendField(f, fields, built) ==
    IF f.panic # "" THEN f ELSE responseFields(fields, Append(built, f.val))

responseFields(fields, built) ==
    IF fields = <<>> THEN Return(built)
    ELSE appendField(newResponseField(Head(fields)), Tail(fields), built)

objectResponse(fs) ==
    IF fs.panic # "" THEN fs ELSE Return([Type |-> "Object", Fields |-> fs.val])

otherResponse(type) ==
    IF type.panic # "" THEN type ELSE Return([Type |-> type.val, Fields |-> <<>>])

\* the switch on expr: [panic, val], val being the Response built
buildResponse(expr) ==
    IF expr.k = "StructType" THEN objectResponse(responseFields(expr.Fields, <<>>))
    ELSE otherResponse(mapFieldType(expr))

\* if response.Type != "Object" || len(response.Fields) != 0 { ...Response = response }
attachResponse(st, a, response) ==
    IF response.Type # "Object" \/ Len(response.Fields) # 0
    THEN [st EXCEPT !.heap[a].Response = <<response>>]
    ELSE st

addResponse(r, entity, response) ==
    IF r.panic # "" THEN r
    ELSE IF response.panic # "" THEN Abort(response.panic, r.st)
    ELSE Done(attachResponse(r.st, MapGet(r.st.EntitiesByName, entity), response.val))

addResponseField(st, entity, expr) ==
    addResponse(ensure(st, entity), entity, buildResponse(expr))

(***************************************************************************)
(* Parser.parseType.  It returns no error but nil.                         *)
(***************************************************************************)
TypeSpec(name, type) == [k |-> "TypeSpec", Name |-> name, Type |-> type]

requestEndpoint(name) == Replace(name, "Request", "", -1)
responseEndpoint(name) == Replace(name, "Response", "", -1)

\* the registry calls parseType makes for a declaration of this name, in order
parseTypeCalls(name) ==
    (IF HasSuffix(name, "Request")
     THEN <<[fn |-> "addParameter", entity |-> requestEndpoint(name)]>> ELSE <<>>)
    \o (IF HasSuffix(name, "Response")
        THEN <<[fn |-> "addResponseField", entity |-> responseEndpoint(name)]>>
        ELSE <<>>)

\* one of them; st.Type.(*ast.StructType) panics on any other type
parseTypeCall(st, spec, c) ==
    IF c.fn = "addResponseField" THEN addResponseField(st, c.entity, spec.Type)
    ELSE IF spec.Type.k # "StructType" THEN Abort(BadAssertion, st)
    ELSE addParameter(st, c.entity, spec.Type)

RECURSIVE parseTypeDo(_, _, _)
parseTypeDo(r, spec, calls) ==
    IF r.panic # "" \/ calls = <<>> THEN r
    ELSE parseTypeDo(parseTypeCall(r.st, spec, Head(calls)), spec, Tail(calls))

parseType(st, spec) == parseTypeDo(Done(st), spec, parseTypeCalls(spec.Name))

(***************************************************************************)
(* Parser.parseFunction, Parser.AddEndpoint                                *)
(***************************************************************************)
\* Recv is <<>> (nil) or <<the type of Recv.List[0]>>
FuncDecl(doc, recv, name) == [k |-> "FuncDecl", Doc |-> doc, Recv |-> recv, Name |-> name]

\* the two type assertions on the receiver, and the test on the name
isEndpoint(recv, firstChar) ==
    /\ recv.k = "StarExpr"
    /\ recv.X.k = "Ident"
    /\ recv.X.Name = "api"
    /\ firstChar = ToUpper(firstChar)

\* the AddEndpoint calls parseFunction makes for fd: none, or one
parseFunctionCalls(fd) ==
    IF fd.Recv = <<>> THEN <<>>
    ELSE IF isEndpoint(fd.Recv[1], Char(fd.Name, 1))
         THEN <<[name |-> fd.Name, description |-> fd.Doc]>>
         ELSE <<>>

\* the address of p.EntitiesByName[name], or of the Entity NewEntity makes
endpointAt(st, name) ==
    IF MapGet(st.EntitiesByName, name) = 0
    THEN Len(st.heap) + 1
    ELSE MapGet(st.EntitiesByName, name)

\* entity.Description = enhanceDescription(description, name), entity at a
describe(st, name, description, a) ==
    [st EXCEPT !.heap =
        [(IF a > Len(st.heap) THEN Append(st.heap, NewEntity(name)) ELSE st.heap)
            EXCEPT ![a].Description = enhanceDescription(description, name)]]

\* p.EntitiesByName[name] = entity; p.Entities = append(p.Entities, entity)
publish(st, name, a) ==
    IF st.EntitiesByName.nil THEN Abort(NilMapWrite, st)
    ELSE Done([st EXCEPT !.EntitiesByName = MapSet(@, name, a),
                         !.Entities = Append(@, a)])

AddEndpoint(st, name, description) ==
    publish(describe(st, name, description, endpointAt(st, name)),
            name, endpointAt(st, name))

addEndpoints(st, calls) ==
    IF calls = <<>> THEN Done(st)
    ELSE AddEndpoint(st, calls[1].name, calls[1].description)

parseFunction(st, fd) == addEndpoints(st, parseFunctionCalls(fd))

(***************************************************************************)
(* NewParser: parser.ParseFile(fs, name, nil, 0) and the Parser literal.   *)
(* The mode is the set of go/parser flags passed; without ParseComments    *)
(* the scanner skips comments, and every Doc of the tree is nil, whose     *)
(* Text() is "".                                                           *)
(***************************************************************************)
ParseMode == {}

docOf(text, mode) == IF "ParseComments" \in mode THEN text ELSE ""

parseExpr(e, mode) ==
    IF e.k = "StructType"
    THEN StructType([i \in 1..Len(e.Fields) |->
                        [e.Fields[i] EXCEPT !.Doc = docOf(@, mode)]])
    ELSE e

parseDecl(d, mode) ==
    IF d.k = "TypeSpec" THEN TypeSpec(d.Name, parseExpr(d.Type, mode))
    ELSE IF d.k = "FuncDecl" THEN FuncDecl(docOf(d.Doc, mode), d.Recv, d.Name)
    ELSE d

ParseFile(src, mode) == [i \in 1..Len(src) |-> parseDecl(src[i], mode)]

NewParser(src) ==
    [file |-> ParseFile(src, ParseMode),
     Entities |-> <<>>,
     EntitiesByName |-> NilMap]

(***************************************************************************)
(* The source files the walker is run on: every sequence of at most        *)
(* MaxDecls of these declarations, in document order.  No field has more   *)
(* than one defect.                                                        *)
(***************************************************************************)
api == <<StarExpr(Ident("api"))>>

Decls == {
    TypeSpec("CreateWidgetRequest", StructType(<<
        Field("Name of the widget.\n", <<"Name">>, Ident("string"), <<"json:\"name\"">>)>>)),
    TypeSpec("UpdateWidgetRequest", StructType(<<
        Field("", <<"ID">>, SelectorExpr("globalid", "ID"), <<"json:\"id\"">>),
        Field("", <<"Tags">>, ArrayType(Ident("string")), <<"json:\"tags,omitempty\"">>)>>)),
    TypeSpec("PingRequest", StructType(<<>>)),
    TypeSpec("ListRequest", StructType(<<
        Field("", <<"Limit">>, Ident("int"), <<>>)>>)),
    TypeSpec("FindRequest", StructType(<<
        Field("", <<"Query">>, Ident("string"), <<"xml:\"query\"">>)>>)),
    TypeSpec("WatchRequest", StructType(<<
        Field("", <<"Filter">>, MapType, <<"json:\"filter\"">>)>>)),
    TypeSpec("CountRequest", Ident("int")),
    TypeSpec("CreateWidgetResponse", StructType(<<
        Field("", <<"ID">>, SelectorExpr("globalid", "ID"), <<"json:\"id\"">>)>>)),
    TypeSpec("CreateWidgetResponse", StructType(<<>>)),
    TypeSpec("StatusResponse", Ident("string")),
    TypeSpec("ListResponse", StructType(<<
        Field("", <<"Items">>, ArrayType(Ident("Widget")), <<"json:\"-\"">>)>>)),
    TypeSpec("Widget", StructType(<<
        Field("", <<"secret">>, Ident("string"), <<>>)>>)),
    FuncDecl("CreateWidget creates a new widget.\n", api, "CreateWidget"),
    FuncDecl("", api, "_helper"),
    FuncDecl("listWidgets lists.\n", api, "listWidgets"),
    FuncDecl("", <<Ident("api")>>, "CreateWidget"),
    FuncDecl("", <<>>, "CreateWidget"),
    FuncDecl("", <<StarExpr(Ident("server"))>>, "CreateWidget"),
    [k |-> "ImportSpec"] }

Sources == UNION {[1..n -> Decls] : n \in 0..MaxDecls}

(***************************************************************************)
(* main: NewParser(os.Getenv("GOFILE")), then Parse.                       *)
(***************************************************************************)
Idle == [fn |-> "none"]
NoResult == Return("")

Init ==
    /\ source \in Sources
    /\ file = NewParser(source).file
    /\ Entities = NewParser(source).Entities
    /\ EntitiesByName = NewParser(source).EntitiesByName
    /\ heap = <<>>
    /\ pos = 0
    /\ pc = "walking"
    /\ ret = "none"
    /\ output = "untouched"
    /\ panicMsg = ""
    /\ call = Idle
    /\ result = NoResult

registry == [heap |-> heap, Entities |-> Entities, EntitiesByName |-> EntitiesByName]

\* the callback's case has run with outcome r: the registry is as the
\* call left it, and a panic, which nothing recovers, ends the process
Settle(r) ==
    /\ heap' = r.st.heap
    /\ Entities' = r.st.Entities
    /\ EntitiesByName' = r.st.EntitiesByName
    /\ pc' = IF r.panic # "" THEN "panicked" ELSE "walking"
    /\ panicMsg' = r.panic

(***************************************************************************)
(* Parser.Parse: one step of ast.Inspect's callback per node.  parseType's *)
(* err is nil, so the callback returns true; a false would only keep       *)
(* Inspect out of the TypeSpec's own children, none of which is a TypeSpec *)
(* or a FuncDecl.                                                          *)
(***************************************************************************)
VisitTypeSpec ==
    /\ pc = "walking"
    /\ pos < Len(file)
    /\ file[pos + 1].k = "TypeSpec"
    /\ pos' = pos + 1
    /\ Settle(parseType(registry, file[pos + 1]))
    /\ UNCHANGED <<source, file, ret, output, call, result>>

VisitFuncDecl ==
    /\ pc = "walking"
    /\ pos < Len(file)
    /\ file[pos + 1].k = "FuncDecl"
    /\ pos' = pos + 1
    /\ Settle(parseFunction(registry, file[pos + 1]))
    /\ UNCHANGED <<source, file, ret, output, call, result>>

VisitOther ==
    /\ pc = "walking"
    /\ pos < Len(file)
    /\ file[pos + 1].k \notin {"TypeSpec", "FuncDecl"}
    /\ pos' = pos + 1
    /\ UNCHANGED <<source, file, pc, ret, output, panicMsg, heap, Entities,
                   EntitiesByName, call, result>>

(***************************************************************************)
(* Parser.generate, generateCode: template execution, imports.Process and  *)
(* ioutil.WriteFile are external, and each may fail.                       *)
(***************************************************************************)
GenerateOutcomes == {"ok", "executeError", "processError", "writeError"}

generateCode(outcome) ==
    [err |-> IF outcome = "ok" THEN "nil" ELSE "error",
     output |-> IF outcome = "ok" THEN "written"
                ELSE IF outcome = "writeError" THEN "writeFailed"
                ELSE "untouched"]

Generate ==
    /\ pc = "walking"
    /\ pos = Len(file)
    /\ \E outcome \in GenerateOutcomes :
          /\ ret' = generateCode(outcome).err
          /\ output' = generateCode(outcome).output
    /\ pc' = "returned"
    /\ UNCHANGED <<source, file, pos, panicMsg, heap, Entities, EntitiesByName,
                   call, result>>

Next == VisitTypeSpec \/ VisitFuncDecl \/ VisitOther \/ Generate

Spec == Init /\ [][Next]_vars

(***************************************************************************)
(* The pure functions, each applied once to inputs drawn from bounded sets. *)
(***************************************************************************)
Leaves == {
    Ident("string"), Ident("int"), Ident("Widget"),
    SelectorExpr("globalid", "ID"), SelectorExpr("model", "ReactionType"),
    SelectorExpr("model", "CardsResponse"), SelectorExpr("model", "CardResponse"),
    SelectorExpr("model", "Draft"), SelectorExpr("model", "Card"),
    SelectorExpr("time", "Time"),
    MapType, FuncType, InterfaceType, ChanType, StructType(<<>>) }

\* the type expressions with at most d pointers and brackets
RECURSIVE Exprs(_)
Exprs(d) ==
    IF d = 0 THEN Leaves
    ELSE Leaves \cup {StarExpr(e) : e \in Exprs(d - 1)}
                \cup {ArrayType(e) : e \in Exprs(d - 1)}

Tags == {
    "json:\"name\"", "json:\"name,omitempty\"", "json:\"user_id\"", "json:\"7\"",
    "json:\"id\" xml:\"ident\"", "xml:\"ident\" json:\"id\"",
    "json:\"-\"", "json:\"\"", "json:\"name,string\"", "xml:\"ident\"", "" }

Handlers == {"CreateWidget", "Get"}

Docs == {
    "CreateWidget creates a new widget.",
    "Get returns what Get Widget returned.",
    "get returns a widget.",
    "Deprecated: Get is kept for old clients.",
    "" }

TypeNames == {
    "CreateWidgetRequest", "CreateWidgetResponse", "RequestAccessRequest",
    "ResponseCodeResponse", "RequestResponse", "ResponseRequest",
    "Request", "Response", "Widget", "RequestLog", "createRequests" }

Receivers == {
    <<>>, <<Ident("api")>>, <<StarExpr(Ident("api"))>>, <<StarExpr(Ident("Api"))>>,
    <<StarExpr(Ident("server"))>>, <<StarExpr(StarExpr(Ident("api")))>>,
    <<StarExpr(SelectorExpr("pkg", "api"))>>, <<ArrayType(Ident("api"))>> }

FuncNames == {"CreateWidget", "createWidget", "_helper", "X", "x9"}

FnInit ==
    /\ source = <<>>
    /\ file = NewParser(source).file
    /\ Entities = NewParser(source).Entities
    /\ EntitiesByName = NewParser(source).EntitiesByName
    /\ heap = <<>>
    /\ pos = 0
    /\ pc = "walking"
    /\ ret = "none"
    /\ output = "untouched"
    /\ panicMsg = ""
    /\ call = Idle
    /\ result = NoResult

ApplyMapFieldType ==
    /\ call = Idle
    /\ \E expr \in Exprs(MaxDepth) :
          /\ call' = [fn |-> "mapFieldType", expr |-> expr]
          /\ result' = mapFieldType(expr)
    /\ UNCHANGED walker

ApplyParseTag ==
    /\ call = Idle
    /\ \E tag \in Tags :
          /\ call' = [fn |-> "parseTag", tag |-> tag]
          /\ result' = parseTag(tag)
    /\ UNCHANGED walker

ApplyEnhanceDescription ==
    /\ call = Idle
    /\ \E description \in Docs, rpc \in Handlers :
          /\ call' = [fn |-> "enhanceDescription", description |-> description, rpc |-> rpc]
          /\ result' = Return(enhanceDescription(description, rpc))
    /\ UNCHANGED walker

\* what a function that returns nothing did: the calls it made, in order
Made(calls) == [panic |-> "", calls |-> calls]

ApplyParseTypeCalls ==
    /\ call = Idle
    /\ \E name \in TypeNames :
          /\ call' = [fn |-> "parseType", name |-> name]
          /\ result' = Made(parseTypeCalls(name))
    /\ UNCHANGED walker

ApplyParseFunctionCalls ==
    /\ call = Idle
    /\ \E recv \in Receivers, name \in FuncNames :
          /\ call' = [fn |-> "parseFunction", fd |-> FuncDecl("", recv, name)]
          /\ result' = Made(parseFunctionCalls(FuncDecl("", recv, name)))
    /\ UNCHANGED walker

FnNext ==
    \/ ApplyMapFieldType
    \/ ApplyParseTag
    \/ ApplyEnhanceDescription
    \/ ApplyParseTypeCalls
    \/ ApplyParseFunctionCalls

SpecFn == FnInit /\ [][FnNext]_vars

(***************************************************************************)
(* What the claims speak of, stated on the declarations themselves.        *)
(***************************************************************************)
\* name without its last Len(suffix) characters
TrimSuffix(name, suffix) == SubSeq(name, 1, Len(name) - Len(suffix))

\* tags in which the pattern json:"(\d|\w+)(,omitempty)?" has no match
UnmatchedTags == {"xml:\"query\"", "xml:\"ident\"", "json:\"-\"", "json:\"\"",
                  "json:\"name,string\"", ""}

\* the field has no tag, or one the pattern does not match
Untagged(field) == field.Tag = <<>> \/ field.Tag[1] \in UnmatchedTags

\* the field has a name, a tag the pattern matches and a type the mapper maps
Extractable(field) ==
    /\ field.Names # <<>>
    /\ ~Untagged(field)
    /\ field.Type.k \in {"Ident", "StarExpr", "SelectorExpr", "ArrayType"}

IsRequest(d) == d.k = "TypeSpec" /\ HasSuffix(d.Name, "Request")
IsResponse(d) == d.k = "TypeSpec" /\ HasSuffix(d.Name, "Response")

\* a Request struct, or an object-shaped Response struct, with a field
\* that has no tag or a tag the pattern does not match
HasUntaggedField(d) ==
    /\ IsRequest(d) \/ IsResponse(d)
    /\ d.Type.k = "StructType"
    /\ \E i \in 1..Len(d.Type.Fields) : Untagged(d.Type.Fields[i])

\* a Request struct with at least one field, every field extractable
ValidRequest(d) ==
    /\ IsRequest(d)
    /\ d.Type.k = "StructType"
    /\ Len(d.Type.Fields) >= 1
    /\ \A i \in 1..Len(d.Type.Fields) : Extractable(d.Type.Fields[i])

\* a Response declaration whose type is mapped, or a struct of extractable fields
ValidResponse(d) ==
    /\ IsResponse(d)
    /\ IF d.Type.k = "StructType"
       THEN \A i \in 1..Len(d.Type.Fields) : Extractable(d.Type.Fields[i])
       ELSE d.Type.k \in {"Ident", "StarExpr", "SelectorExpr", "ArrayType"}

\* a Request-suffixed declaration whose underlying type is not a struct
Malformed(d) == IsRequest(d) /\ d.Type.k # "StructType"

\* a method on *api whose name starts with an upper-case letter
IsHandler(d) ==
    /\ d.k = "FuncDecl"
    /\ d.Recv = <<StarExpr(Ident("api"))>>
    /\ IsIn(Char(d.Name, 1), UpperLetters)

\* the addresses of the entities named name
Named(name) == {a \in 1..Len(heap) : heap[a].Name = name}

\* the Response attached to the entity registered under name, <<>> if none
ResponseOf(h, byName, name) ==
    IF MapGet(byName, name) = 0 THEN <<>> ELSE h[MapGet(byName, name)].Response

(***************************************************************************)
(* C1: a Request declaration with N tagged fields, processed by a freshly  *)
(* constructed Parser, leaves an Entity under the stripped name with       *)
(* exactly N Parameters in field order, each found in ParameterByName      *)
(* under its field name, and processing does not abort.  (Stated for       *)
(* N >= 1 and the first declaration of the file.)                          *)
(***************************************************************************)
C1_RequestBuildsParameters ==
    (pos = 1 /\ ValidRequest(file[1])) =>
        /\ pc # "panicked"
        /\ MapGet(EntitiesByName, TrimSuffix(file[1].Name, "Request")) # 0
        /\ LET e == heap[MapGet(EntitiesByName, TrimSuffix(file[1].Name, "Request"))]
               fields == file[1].Type.Fields
           IN  /\ Len(e.Parameters) = Len(fields)
               /\ \A i \in 1..Len(fields) :
                     /\ e.Parameters[i].Field = fields[i].Names[1]
                     /\ fields[i].Names[1] \in DOMAIN e.ParameterByName.m
                     /\ e.ParameterByName.m[fields[i].Names[1]].Field = fields[i].Names[1]

(***************************************************************************)
(* C2: a file that declares CreateWidgetRequest, CreateWidgetResponse and  *)
(* the handler CreateWidget on *api, in any order, yields exactly one      *)
(* Entity named CreateWidget: it exists from the first signal on, no       *)
(* signal makes a second one, and when traversal is over it is the one     *)
(* entry of Entities, with the request's Parameters, the response's        *)
(* Response and the handler's Description.                                 *)
(***************************************************************************)
EndpointFile ==
    /\ Len(source) = 3
    /\ \E i \in 1..3 : ValidRequest(source[i]) /\ source[i].Name = "CreateWidgetRequest"
    /\ \E i \in 1..3 : /\ ValidResponse(source[i])
                       /\ source[i].Name = "CreateWidgetResponse"
                       /\ source[i].Type.k = "StructType"
                       /\ Len(source[i].Type.Fields) = 1
    /\ \E i \in 1..3 : IsHandler(source[i]) /\ source[i].Name = "CreateWidget"

C2_OneEntityPerEndpoint ==
    EndpointFile =>
        /\ pc # "panicked"
        /\ pos >= 1 => Cardinality(Named("CreateWidget")) = 1
        /\ pc = "returned" =>
              \E a \in Named("CreateWidget") :
                 /\ Entities = <<a>>
                 /\ MapGet(EntitiesByName, "CreateWidget") = a
                 /\ Len(heap[a].Parameters) = 1
                 /\ heap[a].Parameters[1].Field = "Name"
                 /\ heap[a].Parameters[1].Tag = "name"
                 /\ heap[a].Parameters[1].Type = "string"
                 /\ heap[a].Response =
                       << [Type |-> "Object",
                           Fields |-> <<ResponseField("id", "UUID", "")>>] >>
                 /\ heap[a].Description = "Creates a new widget.\n"

(***************************************************************************)
(* C3: processing a Response declaration replaces the owning Entity's      *)
(* Response with the one built if and only if the built one is             *)
(* non-trivial (its Type is not "Object", or it has a field); otherwise    *)
(* the Entity's Response is left exactly as it was.                        *)
(***************************************************************************)
C3_ResponseAttachment ==
    [][ (pc = "walking" /\ pos < Len(file) /\ ValidResponse(file[pos + 1])) =>
           LET name == TrimSuffix(file[pos + 1].Name, "Response")
               built == buildResponse(file[pos + 1].Type).val
           IN  /\ pc' = "walking"
               /\ MapGet(EntitiesByName', name) # 0
               /\ ResponseOf(heap', EntitiesByName', name) =
                     IF built.Type # "Object" \/ Len(built.Fields) # 0
                     THEN <<built>>
                     ELSE ResponseOf(heap, EntitiesByName, name) ]_vars

(***************************************************************************)
(* C4: if a field of a Request struct, or of an object-shaped Response     *)
(* struct, has no tag or a tag the pattern does not match, the run aborts  *)
(* during traversal: the walk ends in a panic at that declaration or       *)
(* before it, Parse never returns, and the output file is left untouched.  *)
(***************************************************************************)
C4_UntaggedFieldAborts ==
    /\ (\E i \in 1..Len(file) : HasUntaggedField(file[i])) =>
          /\ pc # "returned"
          /\ ret = "none"
          /\ output = "untouched"
    /\ \A i \in 1..pos : HasUntaggedField(file[i]) => pc = "panicked"

\* the walk has panicked in the tag extractor, at a Request field
C4_Witness ==
    /\ pc = "panicked"
    /\ pos >= 2
    /\ IsRequest(file[pos])
    /\ HasUntaggedField(file[pos])
    /\ panicMsg \in {NilDeref, IndexRange1}
    /\ output = "untouched"

(***************************************************************************)
(* C5: when the walker meets a Request-suffixed declaration whose          *)
(* underlying type is not a struct, the run does not abort: traversal      *)
(* stops, no file is written, and Parse returns an error to its caller.    *)
(***************************************************************************)
C5_MalformedTypeIsReturned ==
    \A i \in 1..pos : Malformed(file[i]) =>
        /\ pc # "panicked"
        /\ pos = i
        /\ pc = "returned" => ret = "error" /\ output = "untouched"

(***************************************************************************)
(* C6: the type mapper maps an identifier to its name, a pointer to an     *)
(* identifier to that name, a pointer to anything else to "Object", an     *)
(* array or slice to "Array", globalid.ID to "UUID", model.ReactionType to *)
(* "string", model.CardsResponse, model.CardResponse and model.Draft to    *)
(* "Object", any other qualified name to "pkg.Name", and panics without a  *)
(* value on every other shape.                                             *)
(***************************************************************************)
C6_TypeMapping ==
    call.fn = "mapFieldType" =>
        LET e == call.expr
            named == {SelectorExpr("globalid", "ID"), SelectorExpr("model", "ReactionType"),
                      SelectorExpr("model", "CardsResponse"),
                      SelectorExpr("model", "CardResponse"), SelectorExpr("model", "Draft")}
        IN  /\ e.k = "Ident" => result = [panic |-> "", val |-> e.Name]
            /\ (e.k = "StarExpr" /\ e.X.k = "Ident") =>
                  result = [panic |-> "", val |-> e.X.Name]
            /\ (e.k = "StarExpr" /\ e.X.k # "Ident") =>
                  result = [panic |-> "", val |-> "Object"]
            /\ e.k = "ArrayType" => result = [panic |-> "", val |-> "Array"]
            /\ e = SelectorExpr("globalid", "ID") => result = [panic |-> "", val |-> "UUID"]
            /\ e = SelectorExpr("model", "ReactionType") =>
                  result = [panic |-> "", val |-> "string"]
            /\ e \in {SelectorExpr("model", "CardsResponse"),
                      SelectorExpr("model", "CardResponse"), SelectorExpr("model", "Draft")} =>
                  result = [panic |-> "", val |-> "Object"]
            /\ (e.k = "SelectorExpr" /\ e \notin named) =>
                  result = [panic |-> "", val |-> e.X.Name \o "." \o e.Sel]
            /\ e.k \notin {"Ident", "StarExpr", "SelectorExpr", "ArrayType"} =>
                  result.panic # "" /\ result.val = ""

\* a pointer to a qualified name has been mapped to "Object"
C6_Witness ==
    /\ call.fn = "mapFieldType"
    /\ call.expr = StarExpr(SelectorExpr("time", "Time"))
    /\ result = [panic |-> "", val |-> "Object"]

(***************************************************************************)
(* C7: the Description of handler F documented D is D with only its first  *)
(* occurrence of "F " removed and its first character upper-cased; later   *)
(* occurrences of "F " stay, and an empty D gives an empty Description.    *)
(***************************************************************************)
C7_DescriptionKeepsLaterOccurrences ==
    call.fn = "enhanceDescription" =>
        /\ result.val = toUpper(Replace(call.description, call.rpc \o " ", "", 1))
        /\ call.description = "" => result.val = ""
        /\ (call.rpc = "CreateWidget"
            /\ call.description = "CreateWidget creates a new widget.") =>
              result.val = "Creates a new widget."

(***************************************************************************)
(* C8: for a type name that ends in Request (Response), the entity name    *)
(* passed to the registry is the name with that one trailing suffix        *)
(* removed; the word is kept wherever else it occurs in the name.          *)
(***************************************************************************)
C8_OnlyTrailingSuffixStripped ==
    call.fn = "parseType" =>
        /\ HasSuffix(call.name, "Request") =>
              \E i \in 1..Len(result.calls) :
                 /\ result.calls[i].fn = "addParameter"
                 /\ result.calls[i].entity = TrimSuffix(call.name, "Request")
        /\ HasSuffix(call.name, "Response") =>
              \E i \in 1..Len(result.calls) :
                 /\ result.calls[i].fn = "addResponseField"
                 /\ result.calls[i].entity = TrimSuffix(call.name, "Response")

(***************************************************************************)
(* C9: a function declaration is registered as an endpoint handler if and  *)
(* only if its receiver is a single-level pointer to the identifier api    *)
(* and its name starts with an upper-case letter.                          *)
(***************************************************************************)
C9_HandlerIffExportedOnApi ==
    call.fn = "parseFunction" =>
        (result.calls # <<>> <=> IsHandler(call.fd))

(***************************************************************************)
(* C10: Entities holds one entry per handler declaration visited, in       *)
(* visit order, each the Entity registered in EntitiesByName under its     *)
(* Name; Request and Response declarations never change Entities.          *)
(***************************************************************************)
VisitedHandlers == {i \in 1..pos : file[i].k = "FuncDecl" /\ parseFunctionCalls(file[i]) # <<>>}

C10_EntitiesMirrorHandlers ==
    /\ Len(Entities) = Cardinality(VisitedHandlers)
    /\ \A j \in 1..Len(Entities) :
          /\ MapGet(EntitiesByName, heap[Entities[j]].Name) = Entities[j]
          /\ \E i \in VisitedHandlers :
                /\ file[i].Name = heap[Entities[j]].Name
                /\ Cardinality({h \in VisitedHandlers : h <= i}) = j

====
